---- MODULE Spec2Model ----
(***************************************************************************)
(* A model of pydmrs/components.py: the predicate classes (Pred, RealPred, *)
(* GPred) with their string normalisation, parsing, rendering and          *)
(* comparison, and the Sortinfo feature structures.                        *)
(*                                                                         *)
(* A Python str is a sequence of one-character strings, so that slicing,   *)
(* rsplit, lower() and the containment tests are computed as the code      *)
(* computes them.  Python's None is the one-element sequence <<"None">>,   *)
(* which is no str because "None" is no character.                         *)
(***************************************************************************)
EXTENDS Integers, Sequences, FiniteSets, TLC

VARIABLES
    text,          \* the literal handed to the string operations
    normalised,    \* outcome of Pred.normalise_string(text)
    renormalised,  \* outcome of Pred.normalise_string on that result
    pred,          \* outcome of Pred.from_string(text)
    realpred,      \* outcome of RealPred.from_string(text)
    gpred,         \* outcome of GPred.from_string(text)
    rendered,      \* outcome of str(Pred.from_string(text))
    left,          \* a predicate construction: the call and its outcome
    right,         \* a second predicate construction
    cmp,           \* the comparisons left <= right, left >= right, left == right
    sortinfo,      \* the Sortinfo object, once constructed
    call,          \* the last call made on the Sortinfo family
    raised,        \* the exception that call raised, or "none"
    xs,            \* up to three values of one family, to be compared
    rel            \* the comparisons xs[i] <= xs[j], xs[i] >= xs[j], xs[i] == xs[j]

parseVars == <<text, normalised, renormalised, pred, realpred, gpred, rendered>>
predVars == <<left, right, cmp>>
sortVars == <<sortinfo, call, raised>>
orderVars == <<xs, rel>>
vars == <<parseVars, predVars, sortVars, orderVars>>

(***************************************************************************)
(* Bounds of the model.                                                    *)
(***************************************************************************)
MaxLen == 3        \* length of the literals enumerated over the whole alphabet
MaxSegs == 4       \* '_'-separated segments of an undecorated literal
DecorSegs == 2     \* segments of a literal that carries quotes and suffixes
MaxRel == 2        \* repetitions of the '_rel' suffix

(***************************************************************************)
(* Characters and strings.                                                 *)
(***************************************************************************)
US == "_"
SP == " "
DQ == "\""
SQ == "'"
None == <<"None">>
Rel == <<"_", "r", "e", "l">>

Range(s) == {s[i] : i \in 1..Len(s)}

LowerLetters == <<"a", "b", "c", "d", "e", "f", "g", "h", "i", "j", "k", "l", "m",
                  "n", "o", "p", "q", "r", "s", "t", "u", "v", "w", "x", "y", "z">>
UpperLetters == <<"A", "B", "C", "D", "E", "F", "G", "H", "I", "J", "K", "L", "M",
                  "N", "O", "P", "Q", "R", "S", "T", "U", "V", "W", "X", "Y", "Z">>
LowerChars == Range(LowerLetters)
UpperChars == Range(UpperLetters)

\* str.lower() on one character
lowerChar(c) ==
    IF c \in UpperChars
    THEN LowerLetters[CHOOSE i \in 1..Len(UpperLetters) : UpperLetters[i] = c]
    ELSE c

\* str.lower()
lower(s) == [i \in 1..Len(s) |-> lowerChar(s[i])]

\* str.islower(): no uppercase character and at least one cased character
islower(s) ==
    /\ \A i \in 1..Len(s) : s[i] \notin UpperChars
    /\ \E i \in 1..Len(s) : s[i] \in LowerChars

\* Python's truth value of a str or None
Truthy(x) == x # None /\ x # <<>>

(***************************************************************************)
(* Outcomes of a call: a returned value or a raised exception.             *)
(***************************************************************************)
Returned(v) == [exc |-> "none", val |-> v]
Raised(e) == [exc |-> e, val |-> None]
Unset == [exc |-> "unset", val |-> None]
IsOk(o) == o.exc = "none"

(***************************************************************************)
(* Pred.normalise_string                                                   *)
(***************************************************************************)
\* lines 67-69: strip one trailing '_rel'
StripRel(s) ==
    IF SubSeq(s, (IF Len(s) > 4 THEN Len(s) - 3 ELSE 1), Len(s)) = Rel
    THEN SubSeq(s, 1, Len(s) - 4)
    ELSE s

normalise_string(string) ==
    IF SP \in Range(string) THEN Raised("ValueError")
    ELSE IF string = <<>> THEN Raised("IndexError")
    ELSE
      LET s1 == IF string[1] = DQ /\ string[Len(string)] = DQ
                THEN SubSeq(string, 2, Len(string) - 1)
                ELSE string
      IN IF s1 = <<>> THEN Raised("IndexError")
         ELSE
           LET s2 == IF s1[1] = SQ THEN Tail(s1) ELSE s1
           IN IF DQ \in Range(s2) THEN Raised("ValueError")
              ELSE LET s3 == IF ~islower(s2) THEN lower(s2) ELSE s2
                   IN Returned(StripRel(s3))

(***************************************************************************)
(* Predicate values: namedtuples, so a type and a tuple of fields.         *)
(***************************************************************************)
TopPred == [type |-> "Pred", fields |-> <<>>]
RealPredValue(lemma, pos, sense) == [type |-> "RealPred", fields |-> <<lemma, pos, sense>>]
GPredValue(name) == [type |-> "GPred", fields |-> <<name>>]

Max(S) == CHOOSE x \in S : \A y \in S : y <= x

\* a split that works from the left, as str.split(sep, maxsplit) does
RECURSIVE split_from_left(_, _, _)
split_from_left(s, sep, maxsplit) ==
    LET idx == {i \in 1..Len(s) : s[i] = sep} IN
    IF maxsplit = 0 \/ idx = {} THEN <<s>>
    ELSE LET k == CHOOSE i \in idx : \A j \in idx : i <= j
         IN <<SubSeq(s, 1, k - 1)>>
              \o split_from_left(SubSeq(s, k + 1, Len(s)), sep, maxsplit - 1)

\* str.rsplit(sep, maxsplit)
RECURSIVE rsplit(_, _, _)
rsplit(s, sep, maxsplit) ==
    LET idx == {i \in 1..Len(s) : s[i] = sep} IN
    IF maxsplit = 0 \/ idx = {} THEN <<s>>
    ELSE LET k == Max(idx)
         IN Append(rsplit(SubSeq(s, 1, k - 1), sep, maxsplit - 1),
                   SubSeq(s, k + 1, Len(s)))

\* RealPred.__new__
RealPred_new(lemma, pos, sense) ==
    IF ~Truthy(lemma) THEN Raised("ValueError")
    ELSE IF ~Truthy(pos) THEN Raised("ValueError")
    ELSE IF SP \in Range(lemma) \/ SP \in Range(pos)
            \/ (Truthy(sense) /\ SP \in Range(sense))
         THEN Raised("ValueError")
    ELSE Returned(RealPredValue(lemma, pos, sense))

\* GPred.__new__
GPred_new(name) ==
    IF ~Truthy(name) THEN Raised("ValueError")
    ELSE Returned(GPredValue(name))

\* RealPred.from_normalised_string
RealPred_from_normalised_string(string) ==
    IF string = <<>> THEN Raised("IndexError")
    ELSE IF string[1] # US THEN Raised("ValueError")
    ELSE LET parts == rsplit(Tail(string), US, 2) IN
         IF Len(parts) < 2 THEN Raised("ValueError")
         ELSE IF Len(parts) = 2 THEN RealPred_new(parts[1], parts[2], None)
         ELSE RealPred_new(parts[1], parts[2], parts[3])

\* GPred.from_normalised_string
GPred_from_normalised_string(string) ==
    IF string = <<>> THEN Raised("IndexError")
    ELSE IF string[1] = US THEN Raised("ValueError")
    ELSE GPred_new(string)

\* a dispatch that looks at no leading underscore
from_normalised_string_no_dispatch(string) ==
    IF string = <<>> THEN Raised("IndexError")
    ELSE GPred_new(string)

\* Pred.from_normalised_string
Pred_from_normalised_string(string) ==
    IF string = <<>> THEN Raised("IndexError")
    ELSE IF string[1] = US THEN RealPred_from_normalised_string(string)
    ELSE GPred_from_normalised_string(string)

\* cls.from_string: normalise, then the class's from_normalised_string
Pred_from_string(string) ==
    LET n == normalise_string(string)
    IN IF IsOk(n) THEN Pred_from_normalised_string(n.val) ELSE n

RealPred_from_string(string) ==
    LET n == normalise_string(string)
    IN IF IsOk(n) THEN RealPred_from_normalised_string(n.val) ELSE n

GPred_from_string(string) ==
    LET n == normalise_string(string)
    IN IF IsOk(n) THEN GPred_from_normalised_string(n.val) ELSE n

\* RealPred.__str__
RealPred_str(self) ==
    LET lemma == self.fields[1]
        pos == self.fields[2]
        sense == self.fields[3]
    IN IF Truthy(sense)
       THEN <<US>> \o lemma \o <<US>> \o pos \o <<US>> \o sense
       ELSE <<US>> \o lemma \o <<US>> \o pos

\* GPred.__str__
GPred_str(self) == self.fields[1]

\* Pred.__str__
Pred_str(self) == <<"p", "r", "e", "d", "s", "o", "r", "t">>

\* str(p), dispatched on the class of p
str(p) ==
    CASE p.type = "RealPred" -> RealPred_str(p)
      [] p.type = "GPred" -> GPred_str(p)
      [] OTHER -> Pred_str(p)

(***************************************************************************)
(* Comparison of predicates.  RealPred and GPred inherit == from tuple;    *)
(* Pred, their base class, defines its own == and <=, and total_ordering   *)
(* supplies Pred's >=.  For x <op> y Python calls y's reflected method     *)
(* first when type(y) is a proper subclass of type(x) that overrides it.   *)
(***************************************************************************)
Q == <<"?">>
U == <<"u">>
Unknown == <<"u", "n", "k", "n", "o", "w", "n">>

IsConcrete(p) == p.type \in {"RealPred", "GPred"}

\* isinstance(other, Pred)
IsPredInstance(other) == other.type \in {"Pred", "RealPred", "GPred"}

\* an equality that leaves the last field of a RealPred out
tuple_eq_without_sense(self, other) ==
    SubSeq(self.fields, 1, 2) = SubSeq(other.fields, 1, 2)

\* tuple.__eq__, which RealPred and GPred inherit through namedtuple
tuple_eq(self, other) == self.fields = other.fields

\* Pred.__eq__
Pred_eq(self, other) == other.type = "Pred"

\* Pred.__le__
Pred_le(self, other) == IsPredInstance(other)

\* a <= that leaves the sense out
RealPred_le_without_sense(self, other) ==
    /\ other.type = "RealPred"
    /\ (self.fields[1] = Q \/ self.fields[1] = other.fields[1])
    /\ (self.fields[2] \in {Q, U} \/ self.fields[2] = other.fields[2])

\* a <= in which a wildcard of either operand matches
RealPred_le_either_wildcard(self, other) ==
    /\ other.type = "RealPred"
    /\ (Q \in {self.fields[1], other.fields[1]} \/ self.fields[1] = other.fields[1])
    /\ ({self.fields[2], other.fields[2]} \cap {Q, U} # {} \/ self.fields[2] = other.fields[2])
    /\ ({self.fields[3], other.fields[3]} \cap {Q, Unknown} # {}
           \/ self.fields[3] = other.fields[3])

\* RealPred.__le__
RealPred_le(self, other) ==
    /\ other.type = "RealPred"
    /\ (self.fields[1] = Q \/ self.fields[1] = other.fields[1])
    /\ (self.fields[2] \in {Q, U} \/ self.fields[2] = other.fields[2])
    /\ (self.fields[3] \in {Q, Unknown} \/ self.fields[3] = other.fields[3])

\* GPred.__le__
GPred_le(self, other) ==
    /\ other.type = "GPred"
    /\ (self.fields[1] = Q \/ self.fields[1] = other.fields[1])

\* a >= without the clause for the bare Pred
RealPred_ge_without_top(self, other) ==
    other.type = "RealPred" /\ RealPred_le(other, self)

\* RealPred.__ge__
RealPred_ge(self, other) ==
    other.type = "Pred" \/ (other.type = "RealPred" /\ RealPred_le(other, self))

\* GPred.__ge__
GPred_ge(self, other) ==
    other.type = "Pred" \/ (other.type = "GPred" /\ GPred_le(other, self))

\* x == y: a namedtuple against a bare Pred gets NotImplemented from
\* tuple.__eq__ and falls back to Pred.__eq__ of the other operand
py_eq(x, y) ==
    IF IsConcrete(x) /\ IsConcrete(y) THEN tuple_eq(x, y)
    ELSE IF x.type = "Pred" THEN Pred_eq(x, y)
    ELSE Pred_eq(y, x)

\* Pred.__ge__ as functools.total_ordering derives it from __le__
Pred_ge(self, other) == ~Pred_le(self, other) \/ py_eq(self, other)

\* type(x).__le__(x, y)
method_le(x, y) ==
    CASE x.type = "RealPred" -> RealPred_le(x, y)
      [] x.type = "GPred" -> GPred_le(x, y)
      [] OTHER -> Pred_le(x, y)

\* type(x).__ge__(x, y)
method_ge(x, y) ==
    CASE x.type = "RealPred" -> RealPred_ge(x, y)
      [] x.type = "GPred" -> GPred_ge(x, y)
      [] OTHER -> Pred_ge(x, y)

\* type(y) is a proper subclass of type(x)
ReflectedFirst(x, y) == x.type = "Pred" /\ IsConcrete(y)

\* x <= y
py_le(x, y) == IF ReflectedFirst(x, y) THEN method_ge(y, x) ELSE method_le(x, y)

\* x >= y
py_ge(x, y) == IF ReflectedFirst(x, y) THEN method_le(y, x) ELSE method_ge(x, y)

(***************************************************************************)
(* Direct construction of predicates, and the values tried as fields.      *)
(***************************************************************************)
Lemmas == {<<>>, <<"a">>, <<"b">>, Q, <<"a", SP, "b">>}
Poses == {<<>>, <<"n">>, Q, U, <<"n", SP>>}
Senses == {None, <<>>, <<"1">>, Q, Unknown, <<SP>>}
Names == {<<>>, <<"a">>, <<"b">>, Q, <<"a", SP, "b">>}

NoCall == [cls |-> "none", args |-> <<>>, out |-> Unset]
NoCmp == [done |-> FALSE, le |-> FALSE, ge |-> FALSE, eq |-> FALSE]

NoSortinfo == [cls |-> "none", slot |-> <<>>]
NoSortCall == [op |-> "none", cls |-> "none", dict |-> <<>>, feature |-> None, value |-> None,
               args |-> <<>>, string |-> <<>>]

SortIdle ==
    /\ sortinfo = NoSortinfo
    /\ call = NoSortCall
    /\ raised = "none"

ParseIdle ==
    /\ text = <<>>
    /\ normalised = Unset
    /\ renormalised = Unset
    /\ pred = Unset
    /\ realpred = Unset
    /\ gpred = Unset
    /\ rendered = Unset

PredIdle ==
    /\ left = NoCall
    /\ right = NoCall
    /\ cmp = NoCmp

NoRel == [done |-> FALSE, le |-> <<>>, ge |-> <<>>, eq |-> <<>>]

OrderIdle ==
    /\ xs = <<>>
    /\ rel = NoRel

InitPred ==
    /\ ParseIdle
    /\ PredIdle
    /\ SortIdle
    /\ OrderIdle

NewRealPred(lemma, pos, sense) ==
    LET c == [cls |-> "RealPred", args |-> <<lemma, pos, sense>>,
              out |-> RealPred_new(lemma, pos, sense)]
    IN \/ left = NoCall /\ left' = c /\ UNCHANGED right
       \/ left # NoCall /\ right = NoCall /\ right' = c /\ UNCHANGED left

NewGPred(name) ==
    LET c == [cls |-> "GPred", args |-> <<name>>, out |-> GPred_new(name)]
    IN \/ left = NoCall /\ left' = c /\ UNCHANGED right
       \/ left # NoCall /\ right = NoCall /\ right' = c /\ UNCHANGED left

NewPred ==
    LET c == [cls |-> "Pred", args |-> <<>>, out |-> Returned(TopPred)]
    IN \/ left = NoCall /\ left' = c /\ UNCHANGED right
       \/ left # NoCall /\ right = NoCall /\ right' = c /\ UNCHANGED left

Compare ==
    /\ IsOk(left.out) /\ IsOk(right.out)
    /\ ~cmp.done
    /\ cmp' = [done |-> TRUE,
               le |-> py_le(left.out.val, right.out.val),
               ge |-> py_ge(left.out.val, right.out.val),
               eq |-> py_eq(left.out.val, right.out.val)]
    /\ UNCHANGED <<left, right, parseVars, sortVars, orderVars>>

ConstructRealPred ==
    \E l \in Lemmas, p \in Poses, s \in Senses :
        NewRealPred(l, p, s) /\ UNCHANGED <<cmp, parseVars, sortVars, orderVars>>

ConstructGPred ==
    \E n \in Names : NewGPred(n) /\ UNCHANGED <<cmp, parseVars, sortVars, orderVars>>

ConstructPred == NewPred /\ UNCHANGED <<cmp, parseVars, sortVars, orderVars>>

NextPred ==
    \/ ConstructRealPred
    \/ ConstructGPred
    \/ ConstructPred
    \/ Compare

SpecPred == InitPred /\ [][NextPred]_vars

(***************************************************************************)
(* Sortinfo.  A class has its __slots__, the features tuple the metaclass  *)
(* builds from them, and the class attribute cvarsort.  An instance has no *)
(* __dict__ (every class of the hierarchy defines __slots__), so its state *)
(* is the content of its slots; a slot never assigned is Unbound.          *)
(***************************************************************************)
F_cvarsort == <<"c", "v", "a", "r", "s", "o", "r", "t">>
F_sf == <<"s", "f">>
F_tense == <<"t", "e", "n", "s", "e">>
F_mood == <<"m", "o", "o", "d">>
F_perf == <<"p", "e", "r", "f">>
F_prog == <<"p", "r", "o", "g">>
F_pers == <<"p", "e", "r", "s">>
F_num == <<"n", "u", "m">>
F_gend == <<"g", "e", "n", "d">>
F_ind == <<"i", "n", "d">>
F_pt == <<"p", "t">>
F_prontype == <<"p", "r", "o", "n", "t", "y", "p", "e">>
F_features == <<"f", "e", "a", "t", "u", "r", "e", "s">>

Unbound == <<"Unbound">>
Classes == {"Sortinfo", "EventSortinfo", "InstanceSortinfo"}

\* cls.__slots__
slots(cls) ==
    CASE cls = "EventSortinfo" -> <<F_sf, F_tense, F_mood, F_perf, F_prog>>
      [] cls = "InstanceSortinfo" -> <<F_pers, F_num, F_gend, F_ind, F_pt>>
      [] OTHER -> <<>>

\* cls.features, as SortinfoMeta.__new__ chains the __slots__ along the MRO
features(cls) == IF cls = "Sortinfo" THEN slots("Sortinfo") ELSE slots("Sortinfo") \o slots(cls)

\* cls.cvarsort
cvarsort(cls) ==
    CASE cls = "EventSortinfo" -> <<"e">>
      [] cls = "InstanceSortinfo" -> <<"x">>
      [] OTHER -> <<"i">>

\* object.__new__(cls): every slot unbound
Blank(cls) == [cls |-> cls, slot |-> [f \in Range(features(cls)) |-> Unbound]]

\* object.__setattr__ on an instance that has a __dict__
object_setattr_dict(self, name, value) ==
    Returned([self EXCEPT !.slot =
        [n \in DOMAIN @ \cup {name} |-> IF n = name THEN value ELSE @[n]]])

\* object.__setattr__ on an instance without __dict__
object_setattr(self, name, value) ==
    IF name \in Range(features(self.cls))
    THEN Returned([self EXCEPT !.slot[name] = value])
    ELSE Raised("AttributeError")

\* a __setattr__ that stores the name and the value as given
Sortinfo_setattr_verbatim(self, feature, value) == object_setattr(self, feature, value)

\* Sortinfo.__setattr__
Sortinfo_setattr(self, feature, value) ==
    object_setattr(self, lower(feature), IF value # None THEN lower(value) ELSE value)

\* Sortinfo.__delattr__
Sortinfo_delattr(self, feature) == Sortinfo_setattr(self, feature, None)

\* Sortinfo.__setitem__
Sortinfo_setitem(self, feature, value) == Sortinfo_setattr(self, feature, value)

\* Sortinfo.__delitem__
Sortinfo_delitem(self, feature) == Sortinfo_setitem(self, feature, None)

\* getattr(self, name): the instance's own storage, then the class attribute
getattr(self, name) ==
    IF name \in DOMAIN self.slot
    THEN IF self.slot[name] = Unbound THEN Raised("AttributeError")
         ELSE Returned(self.slot[name])
    ELSE IF name = F_cvarsort THEN Returned(cvarsort(self.cls))
    ELSE Raised("AttributeError")

\* Sortinfo.__getitem__
Sortinfo_getitem(self, feature) ==
    LET f == lower(feature) IN
    IF f = F_cvarsort THEN getattr(self, F_cvarsort)
    ELSE IF f \in Range(features(self.cls)) THEN getattr(self, f)
    ELSE Raised("KeyError")

\* Sortinfo.__iter__
Sortinfo_iter(self) == <<F_cvarsort>> \o features(self.cls)

\* Sortinfo.__len__
Sortinfo_len(self) == 1 + Len(features(self.cls))

\* Sortinfo.__contains__
Sortinfo_contains(self, feature) ==
    feature = F_cvarsort \/ feature \in Range(features(self.cls))

\* the setattr loops of Sortinfo.__init__: the first failure ends the call
RECURSIVE SetAll(_, _, _)
SetAll(self, kwargs, keys) ==
    IF keys = {} THEN Returned(self)
    ELSE LET k == CHOOSE k \in keys : TRUE
             r == Sortinfo_setattr(self, k, kwargs[k])
         IN IF IsOk(r) THEN SetAll(r.val, kwargs, keys \ {k}) ELSE r

\* Sortinfo.__init__ on a new instance of cls
Sortinfo_init(cls, args, kwargs) ==
    IF Len(args) > Len(features(cls)) THEN Raised("TypeError")
    ELSE LET positional == [f \in {features(cls)[i] : i \in 1..Len(args)} |->
                           args[CHOOSE i \in 1..Len(args) : features(cls)[i] = f]]
         a == SetAll(Blank(cls), positional, DOMAIN positional)
         b == IF IsOk(a) THEN SetAll(a.val, kwargs, DOMAIN kwargs) ELSE a
     IN IF ~IsOk(b) THEN b
        ELSE Returned([b.val EXCEPT !.slot =
                 [f \in DOMAIN @ |-> IF @[f] = Unbound THEN None ELSE @[f]]])

\* s in t, for two str
IsSubstring(s, t) ==
    \E i \in 0..(Len(t) - Len(s)) : SubSeq(t, i + 1, i + Len(s)) = s

\* the lowercase keys of a dictionary, each with its value
LowerKeys(dictionary) ==
    [k \in {lower(key) : key \in DOMAIN dictionary} |->
        dictionary[CHOOSE key \in DOMAIN dictionary : lower(key) = k]]

\* Sortinfo.normalise_dict
normalise_dict(dictionary) ==
    LET d1 == LowerKeys(dictionary) IN
    IF F_cvarsort \notin DOMAIN d1 THEN Raised("ValueError")
    ELSE IF d1[F_cvarsort] = None THEN Raised("AttributeError")
    ELSE LET d2 == [d1 EXCEPT ![F_cvarsort] = lower(@)] IN
         IF ~IsSubstring(d2[F_cvarsort], <<"e", "x">>) /\ Cardinality(DOMAIN d2) > 1
         THEN IF \E key \in Range(features("EventSortinfo")) : key \in DOMAIN d2
              THEN Returned([d2 EXCEPT ![F_cvarsort] = <<"e">>])
              ELSE IF \E key \in Range(features("InstanceSortinfo")) : key \in DOMAIN d2
              THEN Returned([d2 EXCEPT ![F_cvarsort] = <<"x">>])
              ELSE Returned(d2)
         ELSE Returned(d2)

\* Sortinfo._from_normalised_dict, which the metaclass installs as the
\* from_normalised_dict of EventSortinfo and InstanceSortinfo
class_from_normalised_dict(cls, dictionary) ==
    IF F_cvarsort \in DOMAIN dictionary /\ dictionary[F_cvarsort] # cvarsort(cls)
    THEN Raised("ValueError")
    ELSE Sortinfo_init(cls, <<>>,
             [k \in DOMAIN dictionary \ {F_cvarsort} |-> dictionary[k]])

\* dictionary['pt'] = dictionary.pop('prontype')
RenameProntype(dictionary) ==
    IF F_prontype \in DOMAIN dictionary
    THEN [k \in (DOMAIN dictionary \ {F_prontype}) \cup {F_pt} |->
             IF k = F_pt THEN dictionary[F_prontype] ELSE dictionary[k]]
    ELSE dictionary

\* Sortinfo.from_normalised_dict
Sortinfo_from_normalised_dict(dictionary) ==
    LET cv == dictionary[F_cvarsort] IN
    IF cv = <<"e">> THEN class_from_normalised_dict("EventSortinfo", dictionary)
    ELSE IF cv = <<"x">>
         THEN class_from_normalised_dict("InstanceSortinfo", RenameProntype(dictionary))
    ELSE Sortinfo_init("Sortinfo", <<>>, <<>>)

\* cls.from_dict
from_dict(cls, dictionary) ==
    LET n == normalise_dict(dictionary) IN
    IF ~IsOk(n) THEN n
    ELSE IF cls = "Sortinfo" THEN Sortinfo_from_normalised_dict(n.val)
    ELSE class_from_normalised_dict(cls, n.val)

LB == "["
RB == "]"
COMMA == ","
EQ == "="

\* str.split(sep)
RECURSIVE split(_, _)
split(s, sep) ==
    LET idx == {i \in 1..Len(s) : s[i] = sep} IN
    IF idx = {} THEN <<s>>
    ELSE LET k == CHOOSE i \in idx : \A j \in idx : i <= j
         IN <<SubSeq(s, 1, k - 1)>> \o split(SubSeq(s, k + 1, Len(s)), sep)

\* str.strip()
RECURSIVE strip(_)
strip(s) ==
    IF s = <<>> THEN s
    ELSE IF s[1] = SP THEN strip(Tail(s))
    ELSE IF s[Len(s)] = SP THEN strip(SubSeq(s, 1, Len(s) - 1))
    ELSE s

\* the loop of Sortinfo.from_string over the items between the brackets:
\* key, value = item.split('='); dictionary[key.strip()] = value.strip()
RECURSIVE ReadItems(_, _)
ReadItems(items, dictionary) ==
    IF items = <<>> THEN Returned(dictionary)
    ELSE LET parts == split(Head(items), EQ) IN
         IF Len(parts) # 2 THEN Raised("ValueError")
         ELSE LET key == strip(parts[1])
                  value == strip(parts[2])
              IN ReadItems(Tail(items),
                     [k \in DOMAIN dictionary \cup {key} |->
                         IF k = key THEN value ELSE dictionary[k]])

\* cls.from_string
Sortinfo_from_string(cls, s) ==
    LET string == lower(s) IN
    IF Len(string) = 0 THEN Raised("IndexError")
    ELSE LET dictionary == [k \in {F_cvarsort} |-> <<string[1]>>] IN
         IF Len(string) > 1
         THEN IF ~(string[2] = LB /\ string[Len(string)] = RB)
              THEN Raised("ValueError")
              ELSE LET d == ReadItems(split(SubSeq(string, 3, Len(string) - 1), COMMA),
                                      dictionary)
                   IN IF IsOk(d) THEN from_dict(cls, d.val) ELSE d
         ELSE from_dict(cls, dictionary)

(***************************************************************************)
(* The Sortinfo calls: one construction (directly, from a dictionary or    *)
(* from a string), then writes and deletions through the mapping and the   *)
(* attribute protocol.                                                     *)
(***************************************************************************)
MaxKeys == 3       \* keys of an imported dictionary
MaxArgs == 2       \* positional arguments of a construction
MaxKwargs == 1     \* keyword arguments of a construction
MaxItems == 2      \* comma-separated items of a Sortinfo string

F_foo == <<"f", "o", "o">>
K_TENSE == <<"T", "E", "N", "S", "E">>
K_Cvarsort == <<"C", "v", "a", "r", "s", "o", "r", "t">>

DictKeys == {F_cvarsort, K_Cvarsort, F_tense, K_TENSE, F_num, F_pt, F_prontype, F_foo}
CvarsortValues == {<<"i">>, <<"e">>, <<"x">>, <<"u">>, <<"I">>, <<>>, <<"e", "x">>, None}
FeatureValues == {None, <<"a">>, <<"A">>, Q}

\* dictionaries in which no two keys differ by case only
Dictionaries ==
    LET keysets == {K \in SUBSET DictKeys :
                       /\ Cardinality(K) <= MaxKeys
                       /\ \A k1, k2 \in K : lower(k1) = lower(k2) => k1 = k2}
    IN UNION {{d \in [K -> CvarsortValues \cup FeatureValues] :
                  \A k \in K : IF lower(k) = F_cvarsort THEN d[k] \in CvarsortValues
                               ELSE d[k] \in FeatureValues} : K \in keysets}

WriteKeys == {F_cvarsort, K_Cvarsort, F_sf, F_tense, K_TENSE, F_num, F_foo, F_features}

InitSort ==
    /\ ParseIdle
    /\ PredIdle
    /\ SortIdle
    /\ OrderIdle

FromDict ==
    /\ call = NoSortCall
    /\ \E cls \in Classes, d \in Dictionaries :
          LET r == from_dict(cls, d) IN
          /\ sortinfo' = IF IsOk(r) THEN r.val ELSE NoSortinfo
          /\ raised' = r.exc
          /\ call' = [NoSortCall EXCEPT !.op = "from_dict", !.cls = cls, !.dict = d]
    /\ UNCHANGED <<parseVars, predVars, orderVars>>

\* the arguments of a direct construction
Positionals == UNION {[1..n -> FeatureValues] : n \in 0..MaxArgs}
KwargKeys == {F_cvarsort, F_tense, K_TENSE, F_num, F_foo}
Keywords ==
    LET keysets == {K \in SUBSET KwargKeys :
                       /\ Cardinality(K) <= MaxKwargs
                       /\ \A k1, k2 \in K : lower(k1) = lower(k2) => k1 = k2}
    IN UNION {[K -> FeatureValues] : K \in keysets}

\* cls(*args, **kwargs)
New ==
    /\ call = NoSortCall
    /\ \E cls \in Classes, args \in Positionals, kwargs \in Keywords :
          LET r == Sortinfo_init(cls, args, kwargs) IN
          /\ sortinfo' = IF IsOk(r) THEN r.val ELSE NoSortinfo
          /\ raised' = r.exc
          /\ call' = [NoSortCall EXCEPT !.op = "new", !.cls = cls,
                                        !.args = args, !.dict = kwargs]
    /\ UNCHANGED <<parseVars, predVars, orderVars>>

\* the strings given to from_string: a discriminator alone or followed by
\* bracketed items, and some that leave the syntax
Discriminators == {<<"e">>, <<"E">>, <<"x">>, <<"i">>, <<"u">>}
Items == {<<"t", "e", "n", "s", "e", "=", "a">>,
          <<"T", "E", "N", "S", "E", "=", "A">>,
          <<" ", "n", "u", "m", " ", "=", " ", "A", " ">>,
          <<"f", "o", "o", "=", "a">>,
          <<"t", "e", "n", "s", "e">>,
          <<"s", "f", "=", "a", "=", "a">>,
          <<"c", "v", "a", "r", "s", "o", "r", "t", "=", "x">>,
          <<>>}

RECURSIVE JoinItems(_)
JoinItems(items) ==
    IF Len(items) = 1 THEN items[1]
    ELSE items[1] \o <<COMMA>> \o JoinItems(Tail(items))

SortinfoStrings ==
    Discriminators
    \cup {d \o <<LB>> \o JoinItems(items) \o <<RB>> :
             d \in Discriminators,
             items \in UNION {[1..n -> Items] : n \in 1..MaxItems}}
    \cup {<<>>, <<"e", "x">>, <<"e", "[">>, <<"e", "[", "s", "f", "=", "a">>}

FromString ==
    /\ call = NoSortCall
    /\ \E cls \in Classes, s \in SortinfoStrings :
          LET r == Sortinfo_from_string(cls, s) IN
          /\ sortinfo' = IF IsOk(r) THEN r.val ELSE NoSortinfo
          /\ raised' = r.exc
          /\ call' = [NoSortCall EXCEPT !.op = "from_string", !.cls = cls, !.string = s]
    /\ UNCHANGED <<parseVars, predVars, orderVars>>

\* the effect of a write or deletion on the one object
Mutation(op, feature, value, r) ==
    /\ sortinfo' = IF IsOk(r) THEN r.val ELSE sortinfo
    /\ raised' = r.exc
    /\ call' = [NoSortCall EXCEPT !.op = op, !.cls = sortinfo.cls,
                                  !.feature = feature, !.value = value]
    /\ UNCHANGED <<parseVars, predVars, orderVars>>

SetItem ==
    /\ sortinfo # NoSortinfo
    /\ \E f \in WriteKeys, v \in FeatureValues :
          Mutation("setitem", f, v, Sortinfo_setitem(sortinfo, f, v))

DelItem ==
    /\ sortinfo # NoSortinfo
    /\ \E f \in WriteKeys : Mutation("delitem", f, None, Sortinfo_delitem(sortinfo, f))

SetAttr ==
    /\ sortinfo # NoSortinfo
    /\ \E f \in WriteKeys, v \in FeatureValues :
          Mutation("setattr", f, v, Sortinfo_setattr(sortinfo, f, v))

DelAttr ==
    /\ sortinfo # NoSortinfo
    /\ \E f \in WriteKeys : Mutation("delattr", f, None, Sortinfo_delattr(sortinfo, f))

NextSort ==
    \/ New
    \/ FromDict
    \/ FromString
    \/ SetItem
    \/ DelItem
    \/ SetAttr
    \/ DelAttr

SpecSort == InitSort /\ [][NextSort]_vars

(***************************************************************************)
(* Comparison of Sortinfo objects.  A comparison returns a truth value or  *)
(* raises what the lookup other[key] raises.                               *)
(***************************************************************************)
\* Sortinfo.iter_specified: the (feature, value) pairs in the order of features
Sortinfo_iter_specified(self) ==
    LET pairs == [i \in 1..Len(features(self.cls)) |->
                     <<features(self.cls)[i],
                       Sortinfo_getitem(self, features(self.cls)[i]).val>>]
        IsSpecified(pair) == pair[2] \notin {Q, U, None}
    IN SelectSeq(pairs, IsSpecified)

\* Sortinfo.__eq__
Sortinfo_eq(self, other) ==
    Returned(/\ cvarsort(self.cls) = cvarsort(other.cls)
             /\ Range(Sortinfo_iter_specified(self)) = Range(Sortinfo_iter_specified(other)))

\* all(other[key] == value for key, value in pairs)
RECURSIVE AllEqual(_, _)
AllEqual(other, pairs) ==
    IF pairs = <<>> THEN Returned(TRUE)
    ELSE LET got == Sortinfo_getitem(other, Head(pairs)[1]) IN
         IF ~IsOk(got) THEN got
         ELSE IF got.val # Head(pairs)[2] THEN Returned(FALSE)
         ELSE AllEqual(other, Tail(pairs))

\* a <= that does not look at cvarsort
Sortinfo_le_any_cvarsort(self, other) == AllEqual(other, Sortinfo_iter_specified(self))

\* Sortinfo.__le__
Sortinfo_le(self, other) ==
    IF cvarsort(self.cls) = <<"i">> \/ cvarsort(self.cls) = cvarsort(other.cls)
    THEN AllEqual(other, Sortinfo_iter_specified(self))
    ELSE Returned(FALSE)

\* Sortinfo.__ge__
Sortinfo_ge(self, other) == Sortinfo_le(other, self)

\* type(y) is a proper subclass of type(x): y's reflected method is tried first
SubclassFirst(x, y) == x.cls = "Sortinfo" /\ y.cls # "Sortinfo"

IsSortinfo(x) == "cls" \in DOMAIN x

\* x <= y, for two predicates or two Sortinfo objects
le(x, y) ==
    IF IsSortinfo(x)
    THEN IF SubclassFirst(x, y) THEN Sortinfo_ge(y, x) ELSE Sortinfo_le(x, y)
    ELSE Returned(py_le(x, y))

\* x >= y
ge(x, y) ==
    IF IsSortinfo(x)
    THEN IF SubclassFirst(x, y) THEN Sortinfo_le(y, x) ELSE Sortinfo_ge(x, y)
    ELSE Returned(py_ge(x, y))

\* x == y
eq(x, y) ==
    IF IsSortinfo(x)
    THEN IF SubclassFirst(x, y) THEN Sortinfo_eq(y, x) ELSE Sortinfo_eq(x, y)
    ELSE Returned(py_eq(x, y))

(***************************************************************************)
(* Three values of one family, constructed one after the other, and then   *)
(* compared with each other.                                               *)
(***************************************************************************)
OrderLemmas == {<<"a">>, <<"b">>, Q}
OrderPoses == {<<"n">>, Q, U}
OrderSenses == {None, <<"1">>, Q, Unknown}
OrderNames == {<<"a">>, <<"b">>, Q}
WideValues == {None, <<"a">>, <<"b">>, Q, U}
NarrowValues == {None, <<"a">>, Q}
OrderKeys == {F_sf, F_tense, F_pers, F_num}
OrderKeywords ==
    UNION {{d \in [K -> WideValues] :
               \A k \in K : k \in {F_sf, F_pers} => d[k] \in NarrowValues} :
           K \in SUBSET OrderKeys}

InitOrder ==
    /\ ParseIdle
    /\ PredIdle
    /\ SortIdle
    /\ OrderIdle

\* there is room for one more operand of the family
Room(sortinfos) ==
    /\ Len(xs) < 3
    /\ xs # <<>> => IsSortinfo(xs[1]) = sortinfos

\* the constructed value becomes the next operand
Take(r) ==
    /\ IsOk(r)
    /\ xs' = Append(xs, r.val)
    /\ UNCHANGED <<rel, parseVars, predVars, sortVars>>

TakeRealPred ==
    /\ Room(FALSE)
    /\ \E l \in OrderLemmas, p \in OrderPoses, s \in OrderSenses :
          Take(RealPred_new(l, p, s))

TakeGPred ==
    /\ Room(FALSE)
    /\ \E n \in OrderNames : Take(GPred_new(n))

TakePred ==
    /\ Room(FALSE)
    /\ Take(Returned(TopPred))

TakeSortinfo ==
    /\ Room(TRUE)
    /\ \E cls \in Classes, kwargs \in OrderKeywords :
          Take(Sortinfo_init(cls, <<>>, kwargs))

\* a write or a deletion on the Sortinfo constructed last
Amend(r) ==
    /\ IsOk(r)
    /\ xs' = [xs EXCEPT ![Len(xs)] = r.val]
    /\ UNCHANGED <<rel, parseVars, predVars, sortVars>>

AmendSet ==
    /\ xs # <<>> /\ IsSortinfo(xs[1])
    /\ ~rel.done
    /\ \E f \in OrderKeys, v \in NarrowValues :
          Amend(Sortinfo_setitem(xs[Len(xs)], f, v))

AmendDel ==
    /\ xs # <<>> /\ IsSortinfo(xs[1])
    /\ ~rel.done
    /\ \E f \in OrderKeys : Amend(Sortinfo_delitem(xs[Len(xs)], f))

Relate ==
    /\ Len(xs) = 3
    /\ ~rel.done
    /\ rel' = [done |-> TRUE,
               le |-> [i \in 1..3 |-> [j \in 1..3 |-> le(xs[i], xs[j])]],
               ge |-> [i \in 1..3 |-> [j \in 1..3 |-> ge(xs[i], xs[j])]],
               eq |-> [i \in 1..3 |-> [j \in 1..3 |-> eq(xs[i], xs[j])]]]
    /\ UNCHANGED <<xs, parseVars, predVars, sortVars>>

NextOrder ==
    \/ TakeRealPred
    \/ TakeGPred
    \/ TakePred
    \/ TakeSortinfo
    \/ AmendSet
    \/ AmendDel
    \/ Relate

SpecOrder == InitOrder /\ [][NextOrder]_vars

(***************************************************************************)
(* The literals the string operations are applied to.                      *)
(***************************************************************************)
Alphabet == {US, "a", "A", SQ, DQ, SP}

RECURSIVE StringsUpTo(_, _)
StringsUpTo(S, n) ==
    IF n = 0 THEN {<<>>}
    ELSE LET shorter == StringsUpTo(S, n - 1)
         IN shorter \cup {Append(s, c) : s \in shorter, c \in S}

Segments == {<<>>, <<"a">>, <<"n">>}

\* segments joined by '_', with or without a leading '_'
RECURSIVE Joined(_)
Joined(n) ==
    IF n = 1 THEN Segments
    ELSE {b \o <<US>> \o s : b \in Joined(n - 1), s \in Segments}

Bodies(n) ==
    LET joined == UNION {Joined(k) : k \in 1..n}
    IN joined \cup {<<US>> \o b : b \in joined}

RECURSIVE RelTimes(_)
RelTimes(k) == IF k = 0 THEN <<>> ELSE Rel \o RelTimes(k - 1)

Suffixes == {RelTimes(k) : k \in 0..MaxRel} \cup {<<"_", "R", "E", "L">>}
Prefixes == {<<>>, <<SQ>>, <<SQ, SQ>>}

Decorated ==
    LET plain == {p \o b \o s : p \in Prefixes, b \in Bodies(DecorSegs), s \in Suffixes}
    IN plain \cup {<<DQ>> \o t \o <<DQ>> : t \in plain}

Literals ==
    StringsUpTo(Alphabet, MaxLen)
      \cup Decorated
      \cup {b \o s : b \in Bodies(MaxSegs), s \in {<<>>, Rel}}

(***************************************************************************)
(* The string operations, each applied to the literal.                     *)
(***************************************************************************)
Init ==
    /\ text \in Literals
    /\ normalised = Unset
    /\ renormalised = Unset
    /\ pred = Unset
    /\ realpred = Unset
    /\ gpred = Unset
    /\ rendered = Unset
    /\ PredIdle
    /\ SortIdle
    /\ OrderIdle

Normalise ==
    /\ normalised = Unset
    /\ normalised' = normalise_string(text)
    /\ UNCHANGED <<text, renormalised, pred, realpred, gpred, rendered>>
    /\ UNCHANGED <<predVars, sortVars, orderVars>>

Renormalise ==
    /\ IsOk(normalised)
    /\ renormalised = Unset
    /\ renormalised' = normalise_string(normalised.val)
    /\ UNCHANGED <<text, normalised, pred, realpred, gpred, rendered>>
    /\ UNCHANGED <<predVars, sortVars, orderVars>>

PredFromString ==
    /\ pred = Unset
    /\ pred' = Pred_from_string(text)
    /\ UNCHANGED <<text, normalised, renormalised, realpred, gpred, rendered>>
    /\ UNCHANGED <<predVars, sortVars, orderVars>>

RealPredFromString ==
    /\ realpred = Unset
    /\ realpred' = RealPred_from_string(text)
    /\ UNCHANGED <<text, normalised, renormalised, pred, gpred, rendered>>
    /\ UNCHANGED <<predVars, sortVars, orderVars>>

GPredFromString ==
    /\ gpred = Unset
    /\ gpred' = GPred_from_string(text)
    /\ UNCHANGED <<text, normalised, renormalised, pred, realpred, rendered>>
    /\ UNCHANGED <<predVars, sortVars, orderVars>>

Render ==
    /\ IsOk(pred)
    /\ rendered = Unset
    /\ rendered' = Returned(str(pred.val))
    /\ UNCHANGED <<text, normalised, renormalised, pred, realpred, gpred>>
    /\ UNCHANGED <<predVars, sortVars, orderVars>>

Next ==
    \/ Normalise
    \/ Renormalise
    \/ PredFromString
    \/ RealPredFromString
    \/ GPredFromString
    \/ Render

Spec == Init /\ [][Next]_vars

(***************************************************************************)
(* Helpers of the properties below.                                        *)
(***************************************************************************)
\* two outcomes agree: the same exception, or the same returned value
Same(o1, o2) == o1.exc = o2.exc /\ (IsOk(o1) => o1.val = o2.val)

EndsWithRel(s) == Len(s) >= 4 /\ SubSeq(s, Len(s) - 3, Len(s)) = Rel

\* a lowercase literal without quotes or spaces
IsPlain(s) == Range(s) \cap (UpperChars \cup {DQ, SQ, SP}) = {}

Underscores(s) == {i \in 1..Len(s) : s[i] = US}

(***************************************************************************)
(* C1: for a lowercase, unquoted literal ending in '_rel', rendering the   *)
(* parsed predicate gives the literal back, trailing '_rel' included.      *)
(* The code renders without '_rel', so this fails.                         *)
(***************************************************************************)
C1_RenderReaddsRel ==
    (IsOk(rendered) /\ IsPlain(text) /\ EndsWithRel(text)) => rendered.val = text

(***************************************************************************)
(* C2, as amended: RealPred.from_string on a non-empty normalised text     *)
(* fails with ValueError when the text has no leading '_' or the rest r    *)
(* has no '_'; otherwise r is split at its last '_' (and, when there is    *)
(* one, the '_' before it) into lemma, pos and sense, and the call fails   *)
(* with ValueError when the lemma or the pos segment is empty and returns  *)
(* RealPred(lemma, pos[, sense]) otherwise.                                *)
(***************************************************************************)
C2_Expected(n, checked) ==
    IF n[1] # US THEN Raised("ValueError")
    ELSE LET r == Tail(n)
             us == Underscores(r)
         IN IF us = {} THEN Raised("ValueError")
            ELSE LET last == Max(us)
                     after == SubSeq(r, last + 1, Len(r))
                     earlier == {i \in us : i < last}
                     lemma == IF earlier = {} THEN SubSeq(r, 1, last - 1)
                              ELSE SubSeq(r, 1, Max(earlier) - 1)
                     pos == IF earlier = {} THEN after
                            ELSE SubSeq(r, Max(earlier) + 1, last - 1)
                     sense == IF earlier = {} THEN None ELSE after
                 IN IF checked /\ (lemma = <<>> \/ pos = <<>>)
                    THEN Raised("ValueError")
                    ELSE Returned(RealPredValue(lemma, pos, sense))

C3_Dispatch ==
    (IsOk(normalised) /\ pred # Unset /\ realpred # Unset /\ gpred # Unset)
        => IF normalised.val # <<>> /\ normalised.val[1] = US
           THEN Same(pred, realpred) /\ (IsOk(pred) => pred.val.type = "RealPred")
           ELSE Same(pred, gpred) /\ (IsOk(pred) => pred.val.type = "GPred")

\* a decorated literal that Pred.from_string turns into a RealPred
C3_Witness ==
    /\ IsOk(normalised) /\ IsOk(pred) /\ IsOk(realpred) /\ gpred # Unset
    /\ pred.val.type = "RealPred"
    /\ text # normalised.val

(***************************************************************************)
(* C4: == on two RealPreds is equality of lemma, pos and sense, == on two  *)
(* GPreds is equality of the names, and subsumption through a wildcard     *)
(* never makes two predicates equal when a field differs.                  *)
(***************************************************************************)
C4_EqualityIsFieldwise ==
    cmp.done =>
        LET x == left.out.val
            y == right.out.val
        IN /\ (x.type = "RealPred" /\ y.type = "RealPred")
                => (cmp.eq <=> /\ x.fields[1] = y.fields[1]
                               /\ x.fields[2] = y.fields[2]
                               /\ x.fields[3] = y.fields[3])
           /\ (x.type = "GPred" /\ y.type = "GPred")
                => (cmp.eq <=> x.fields[1] = y.fields[1])
           /\ (cmp.le /\ x.type = y.type /\ x.fields # y.fields) => ~cmp.eq

\* a RealPred that subsumes another through a wildcard and is not equal to it
C4_Witness ==
    /\ cmp.done /\ cmp.le /\ ~cmp.eq
    /\ left.out.val.type = "RealPred" /\ right.out.val.type = "RealPred"

(***************************************************************************)
(* C5: normalising a normalised string succeeds and changes nothing.       *)
(* The code strips one '_rel' and one single quote per call, so this fails.*)
(***************************************************************************)
C5_Idempotent ==
    (IsOk(normalised) /\ renormalised # Unset)
        => IsOk(renormalised) /\ renormalised.val = normalised.val

(***************************************************************************)
(* C6: for every literal Pred.from_string accepts, rendering the result    *)
(* gives the normalised literal.  The code drops an empty sense, so this   *)
(* fails.                                                                  *)
(***************************************************************************)
C6_RoundTrip ==
    (IsOk(normalised) /\ IsOk(rendered)) => rendered.val = normalised.val

(***************************************************************************)
(* C7, as amended: for every concrete predicate x, x >= Pred() is true,    *)
(* and Pred() <= y is true for every predicate y, concrete or top.         *)
(***************************************************************************)
C7_TopRule ==
    cmp.done =>
        /\ (IsConcrete(left.out.val) /\ right.out.val = TopPred) => cmp.ge
        /\ (left.out.val = TopPred) => cmp.le

\* C7 as stated: Pred() <= x is false for a concrete x
C7_AsStated ==
    cmp.done =>
        /\ (IsConcrete(left.out.val) /\ right.out.val = TopPred) => cmp.ge
        /\ (left.out.val = TopPred /\ IsConcrete(right.out.val)) => ~cmp.le
        /\ (left.out.val = TopPred /\ cmp.le) => right.out.val = TopPred

\* Pred() <= x answered true for a concrete x
C7_Witness ==
    /\ cmp.done
    /\ left.out.val = TopPred /\ IsConcrete(right.out.val) /\ cmp.le

(***************************************************************************)
(* C8: constructing a RealPred with an empty lemma or pos or a space in    *)
(* lemma, pos or sense, or a GPred with an empty name or a space in the    *)
(* name, fails with ValueError.  GPred.__new__ checks no spaces, so this   *)
(* fails.                                                                  *)
(***************************************************************************)
C8_Rejected(c) ==
    /\ c.cls = "RealPred" =>
          ((\/ c.args[1] = <<>> \/ c.args[2] = <<>>
            \/ SP \in Range(c.args[1]) \/ SP \in Range(c.args[2])
            \/ (c.args[3] # None /\ SP \in Range(c.args[3])))
             => c.out.exc = "ValueError")
    /\ c.cls = "GPred" =>
          ((c.args[1] = <<>> \/ SP \in Range(c.args[1])) => c.out.exc = "ValueError")

C8_ConstructionRejects == C8_Rejected(left) /\ C8_Rejected(right)

(***************************************************************************)
(* C9: Sortinfo.from_dict on a dictionary whose lowercased cvarsort is     *)
(* neither 'e' nor 'x' and that has another key builds an Event when a key *)
(* is an Event feature name, and otherwise an Instance when a key is an    *)
(* Instance feature name.  The code tests the cvarsort with "not in 'ex'", *)
(* a substring test, so this fails.                                        *)
(***************************************************************************)
EventFeatureNames == {F_sf, F_tense, F_mood, F_perf, F_prog}
InstanceFeatureNames == {F_pers, F_num, F_gend, F_ind, F_pt}

C9_InfersVariant ==
    (call.op = "from_dict" /\ call.cls = "Sortinfo")
        => LET keys == {lower(k) : k \in DOMAIN call.dict}
               cv == CHOOSE k \in DOMAIN call.dict : lower(k) = F_cvarsort
           IN (/\ F_cvarsort \in keys
               /\ call.dict[cv] # None
               /\ lower(call.dict[cv]) \notin {<<"e">>, <<"x">>}
               /\ Cardinality(keys) > 1)
                 => IF keys \cap EventFeatureNames # {}
                    THEN raised = "none" /\ sortinfo.cls = "EventSortinfo"
                    ELSE IF keys \cap InstanceFeatureNames # {}
                    THEN raised = "none" /\ sortinfo.cls = "InstanceSortinfo"
                    ELSE TRUE

(***************************************************************************)
(* C10: through every write and deletion the value read for 'cvarsort' is  *)
(* the discriminator of the variant, the variant does not change, the keys *)
(* are 'cvarsort' and the variant's feature names, each with a value; a    *)
(* deleted feature reads None; a write or deletion of 'cvarsort' fails and *)
(* changes nothing.                                                        *)
(***************************************************************************)
Discriminator(cls) ==
    IF cls = "EventSortinfo" THEN <<"e">>
    ELSE IF cls = "InstanceSortinfo" THEN <<"x">> ELSE <<"i">>

VariantFeatures(cls) ==
    IF cls = "EventSortinfo" THEN EventFeatureNames
    ELSE IF cls = "InstanceSortinfo" THEN InstanceFeatureNames ELSE {}

IsMutation(c) == c.op \in {"setitem", "delitem", "setattr", "delattr"}

C10_Step ==
    sortinfo' # NoSortinfo =>
        /\ Same(Sortinfo_getitem(sortinfo', F_cvarsort),
                Returned(Discriminator(sortinfo'.cls)))
        /\ sortinfo # NoSortinfo => sortinfo'.cls = sortinfo.cls
        /\ Range(Sortinfo_iter(sortinfo')) = {F_cvarsort} \cup VariantFeatures(sortinfo'.cls)
        /\ Sortinfo_len(sortinfo') = 1 + Cardinality(VariantFeatures(sortinfo'.cls))
        /\ \A f \in VariantFeatures(sortinfo'.cls) : IsOk(Sortinfo_getitem(sortinfo', f))
        /\ (call'.op \in {"delitem", "delattr"} /\ raised' = "none")
              => Same(Sortinfo_getitem(sortinfo', call'.feature), Returned(None))
        /\ (IsMutation(call') /\ lower(call'.feature) = F_cvarsort)
              => raised' # "none" /\ sortinfo' = sortinfo

C10_CvarsortAndKeysFixed == [][C10_Step]_vars

\* a failed write of 'cvarsort' on an Event that has a feature set
C10_Witness ==
    /\ call.op = "setitem" /\ call.feature = F_cvarsort /\ call.value # None
    /\ raised = "AttributeError"
    /\ sortinfo.cls = "EventSortinfo"
    /\ sortinfo.slot[F_tense] # None

(***************************************************************************)
(* C13: importing a dictionary that resolves to EventSortinfo or           *)
(* InstanceSortinfo and has a key that is neither 'cvarsort' nor a feature *)
(* of that variant fails with an error of the ValueError or KeyError       *)
(* class, and produces no Sortinfo.  Keys are taken in lowercase, and the  *)
(* key 'prontype', which the import of an instance renames to 'pt', is     *)
(* not counted as unknown there.                                           *)
(***************************************************************************)
ImportedVariant(dictionary) ==
    LET n == normalise_dict(dictionary) IN
    IF ~IsOk(n) THEN "none"
    ELSE IF n.val[F_cvarsort] = <<"e">> THEN "EventSortinfo"
    ELSE IF n.val[F_cvarsort] = <<"x">> THEN "InstanceSortinfo"
    ELSE "Sortinfo"

UnknownKeys(dictionary) ==
    LET variant == ImportedVariant(dictionary) IN
    {lower(k) : k \in DOMAIN dictionary}
        \ ({F_cvarsort} \cup VariantFeatures(variant)
              \cup (IF variant = "InstanceSortinfo" THEN {F_prontype} ELSE {}))

C13_UnknownFeatureRejected ==
    (/\ call.op = "from_dict" /\ call.cls = "Sortinfo"
     /\ ImportedVariant(call.dict) \in {"EventSortinfo", "InstanceSortinfo"}
     /\ UnknownKeys(call.dict) # {})
        => /\ raised \in {"ValueError", "KeyError"}
           /\ sortinfo = NoSortinfo

(***************************************************************************)
(* C11: after a construction (positional, keyword, from a dictionary or    *)
(* from a string) and after every write or deletion, whatever the case of  *)
(* the names and values given, each feature of the Sortinfo holds None or  *)
(* a lowercase string; and a write whose name is a feature of the object   *)
(* once lowercased is not rejected and lands on that lowercase feature,    *)
(* with the value lowercased.                                              *)
(***************************************************************************)
Lowered(value) == IF value = None THEN None ELSE lower(value)

IsLowercaseOrNone(value) ==
    /\ value # Unbound
    /\ value # None => lower(value) = value

C11_Lowercase ==
    /\ sortinfo # NoSortinfo =>
          \A f \in DOMAIN sortinfo.slot : IsLowercaseOrNone(sortinfo.slot[f])
    /\ (call.op \in {"setitem", "setattr"}
          /\ lower(call.feature) \in VariantFeatures(call.cls))
          => /\ raised = "none"
             /\ sortinfo.slot[lower(call.feature)] = Lowered(call.value)
    /\ (call.op = "new" /\ Len(call.args) <= Len(features(call.cls))
          /\ \A k \in DOMAIN call.dict : lower(k) \in VariantFeatures(call.cls))
          => /\ raised = "none"
             /\ \A k \in DOMAIN call.dict :
                   sortinfo.slot[lower(k)] = Lowered(call.dict[k])

C11_Witness ==
    /\ call.op = "setitem" /\ call.feature = K_TENSE /\ call.value = <<"A">>
    /\ raised = "none"
    /\ sortinfo.slot[F_tense] = <<"a">>

(***************************************************************************)
(* C12: for Sortinfo values a and b reached by construction, writes and    *)
(* deletions, where a feature is specified when its value is not None,     *)
(* '?' or 'u': a <= b iff a's discriminator is 'i' or equals b's and every *)
(* specified feature of a has the same value on b; a == b iff the          *)
(* discriminators are equal and the sets of specified (feature, value)     *)
(* pairs are equal; and a >= b iff b <= a.                                 *)
(***************************************************************************)
IsTrue(outcome) == IsOk(outcome) /\ outcome.val = TRUE

Specified(a) ==
    {<<f, a.slot[f]>> : f \in {g \in DOMAIN a.slot : a.slot[g] \notin {None, Q, U}}}

Subsumes(a, b) ==
    /\ Discriminator(a.cls) = <<"i">> \/ Discriminator(a.cls) = Discriminator(b.cls)
    /\ \A p \in Specified(a) : p[1] \in DOMAIN b.slot /\ b.slot[p[1]] = p[2]

C12_SortinfoOrder ==
    (rel.done /\ IsSortinfo(xs[1])) =>
        \A i, j \in 1..3 :
            /\ Same(rel.le[i][j], Returned(Subsumes(xs[i], xs[j])))
            /\ Same(rel.eq[i][j],
                    Returned(/\ Discriminator(xs[i].cls) = Discriminator(xs[j].cls)
                             /\ Specified(xs[i]) = Specified(xs[j])))
            /\ Same(rel.ge[i][j], rel.le[j][i])
            /\ IsOk(rel.le[i][j]) /\ IsOk(rel.eq[i][j]) /\ IsOk(rel.ge[i][j])

C12_Witness ==
    /\ rel.done /\ IsSortinfo(xs[1])
    /\ xs[1].cls = "Sortinfo"
    /\ xs[2].cls = "EventSortinfo" /\ xs[2].slot[F_tense] = <<"a">> /\ xs[2].slot[F_sf] = Q
    /\ xs[3].cls = "EventSortinfo" /\ xs[3].slot[F_tense] = <<"a">> /\ xs[3].slot[F_sf] = <<"a">>
    /\ IsTrue(rel.le[1][2]) /\ ~IsTrue(rel.le[2][1])
    /\ IsTrue(rel.le[2][3]) /\ ~IsTrue(rel.le[3][2]) /\ IsTrue(rel.ge[3][2])
    /\ ~IsTrue(rel.eq[2][3])

(***************************************************************************)
(* C14: antisymmetry for fully specified values.  For predicates a and b   *)
(* without a wildcard field ('?', the pos 'u', the sense 'unknown') and    *)
(* for Sortinfo values a and b without a feature holding '?' or 'u':       *)
(* a <= b and b <= a imply a == b.                                         *)
(***************************************************************************)
FullySpecified(x) ==
    IF IsSortinfo(x) THEN \A f \in DOMAIN x.slot : x.slot[f] \notin {Q, U}
    ELSE IF x.type = "RealPred"
         THEN /\ Q \notin Range(x.fields)
              /\ x.fields[2] # U
              /\ x.fields[3] # Unknown
    ELSE Q \notin Range(x.fields)

C14_Antisymmetric ==
    rel.done =>
        \A i, j \in 1..3 :
            (/\ FullySpecified(xs[i]) /\ FullySpecified(xs[j])
             /\ IsTrue(rel.le[i][j]) /\ IsTrue(rel.le[j][i]))
                => IsTrue(rel.eq[i][j])

C14_Witness ==
    /\ rel.done
    /\ xs[1] = RealPredValue(<<"a">>, <<"n">>, <<"1">>)
    /\ xs[2] = RealPredValue(<<"a">>, <<"n">>, <<"1">>)
    /\ xs[3] = RealPredValue(<<"a">>, <<"n">>, None)
    /\ IsTrue(rel.le[1][2]) /\ IsTrue(rel.le[2][1]) /\ IsTrue(rel.eq[1][2])
    /\ ~IsTrue(rel.le[1][3]) /\ ~IsTrue(rel.eq[1][3])

(***************************************************************************)
(* C15: subsumption is transitive in both families.  For predicates a, b,  *)
(* c (the bare Pred(), RealPred and GPred, with any wildcards) and for     *)
(* Sortinfo values a, b, c (Sortinfo, EventSortinfo, InstanceSortinfo,     *)
(* with features holding None, '?' or 'u'): a <= b and b <= c imply        *)
(* a <= c.                                                                 *)
(***************************************************************************)
C15_Transitive ==
    rel.done =>
        \A i, j, k \in 1..3 :
            (IsTrue(rel.le[i][j]) /\ IsTrue(rel.le[j][k])) => IsTrue(rel.le[i][k])

C15_Witness ==
    /\ rel.done
    /\ xs[1] = TopPred
    /\ xs[2] = RealPredValue(Q, U, Unknown)
    /\ xs[3] = RealPredValue(<<"a">>, <<"n">>, <<"1">>)
    /\ IsTrue(rel.le[1][2]) /\ IsTrue(rel.le[2][3]) /\ IsTrue(rel.le[1][3])
    /\ ~IsTrue(rel.le[3][2]) /\ ~IsTrue(rel.le[2][1])

====
